---- MODULE Spec2Model ----
(***************************************************************************)
(* queuectl: a persistent multi-worker job queue on one SQLite file.       *)
(*                                                                         *)
(*   src/src/DB.js          the jobs table (id TEXT PRIMARY KEY), WAL mode *)
(*   src/src/JobManager.js  enqueue, claimJob, calculateBackoff,           *)
(*                          updateJobState, retryDeadJob                   *)
(*   src/src/Worker.js      signal handlers, executeCommand, workerLoop    *)
(*   src/src/cli.js         enqueue <file>, dlq retry <id>, worker start,  *)
(*                          worker stop                                    *)
(*                                                                         *)
(* Timestamps are dayjs().format("YYYY-MM-DD HH:mm:ss") strings, compared  *)
(* by SQLite as text.  The format has one-second resolution and fixed      *)
(* width, so a timestamp is modelled by its number of seconds and the text *)
(* comparison by <= on it.  One handler reads the clock within one         *)
(* synchronous run; its reads are taken at the same second.                *)
(***************************************************************************)
EXTENDS Integers, FiniteSets, Sequences, TLC

\* ------------------------------------------------------------------ bounds
\* the clock stops ticking at MaxTime seconds
MaxTime == 5

\* the clock of the long run stops ticking at LongTime seconds
LongTime == 15

\* calculateBackoff on its own is called with attempts in 1..MaxAttempts
MaxAttempts == 8

\* calculateBackoff on its own is called at a time in 0..MaxCallTime
MaxCallTime == 9

\* ------------------------------------------------------- program constants
BACKOFF_BASE_SECONDS == 5
MAX_IDLE_COUNT == 10
DEFAULT_MAX_RETRIES == 3
\* setTimeout(resolve, 1000): the idle sleep, in seconds
IDLE_SLEEP_SECONDS == 1

\* ------------------------------------------------------------------- sets
Workers == {"w1", "w2"}
\* the order in which startWorkers forks them
WorkerIndex(w) == IF w = "w1" THEN 1 ELSE 2
\* ids a submission document may carry, and ids uuidv4() may generate
UserIds == {"a"}
GenIds == {"u"}
Ids == UserIds \cup GenIds
Commands == {"c1"}
States == {"pending", "processing", "completed", "failed", "dead"}

\* a JSON value of the submission document, as far as the code inspects it
Undefined == [type |-> "undefined", text |-> "", num |-> 0]
Str(s) == [type |-> "string", text |-> s, num |-> 0]
Num(n) == [type |-> "number", text |-> "", num |-> n]

\* the documents `queuectl enqueue` is given
DocIdValues == {Undefined} \cup {Str(i) : i \in UserIds}
DocCommandValues == {Undefined, Str(""), Num(7)} \cup {Str(c) : c \in Commands}
DocMaxRetriesValues == {Undefined, Num(0), Num(1)}
Documents == [id : DocIdValues, command : DocCommandValues,
              max_retries : DocMaxRetriesValues]

\* how a spawned command ends: 'close' with a code (null when a signal killed
\* it, written -1 here) or 'error' when the launch failed
Outcomes == {"close0", "close1", "closeNull", "error"}

\* the worker's `job` variable when it holds no job
NullJob == [id |-> "null", command |-> "", state |-> "none", attempts |-> 0,
            max_retries |-> 0, created_at |-> 0, updated_at |-> 0,
            next_attempt_at |-> 0]

VARIABLES
  jobs,       \* the jobs table: a function from the stored ids to rows
  now,        \* the wall clock, in seconds
  pc,         \* per worker process: where it is in Worker.js
  isRunning,  \* per worker: the module-level flag of Worker.js
  idleCount,  \* per worker: the idleCount local of workerLoop
  job,        \* per worker: the row claimJob selected / returned
  claimNow,   \* per worker: the `now` local of a claimJob in progress
  stale,      \* per worker: a commit landed after its transaction's SELECT
  wakeAt,     \* per worker: when its idle sleep timer fires
  exitCode,   \* per worker: the exit status of the process, -1 while it runs
  cli,        \* how the last CLI command ended: "ok", or the command that failed
  runs,       \* per id: the commands run for the job since it became pending
  calc        \* a call of calculateBackoff on its own: arguments and results

vars == <<jobs, now, pc, isRunning, idleCount, job, claimNow, stale, wakeAt,
          exitCode, cli, runs, calc>>

workerVars == <<pc, isRunning, idleCount, job, claimNow, stale, wakeAt, exitCode>>

Stored == DOMAIN jobs

\* ---------------------------------------------------------- pure helpers
RECURSIVE Pow2(_)
Pow2(n) == IF n <= 0 THEN 1 ELSE 2 * Pow2(n - 1)

\* faulty variant: the exponent is the attempt count itself
BackoffDelayFromAttempts(attempts) == BACKOFF_BASE_SECONDS * Pow2(attempts)

\* faulty variant: a delay that grows by the base with each attempt
BackoffDelayLinear(attempts) == BACKOFF_BASE_SECONDS * attempts

\* calculateBackoff: the delay, in seconds, for the given attempt count
CalculateBackoffDelay(attempts) == BACKOFF_BASE_SECONDS * Pow2(attempts - 1)

\* calculateBackoff: dayjs().add(delay, "second")
CalculateBackoff(attempts, t) == t + CalculateBackoffDelay(attempts)

\* faulty variant: next_attempt_at < ? in place of <=
IsEligibleStrict(row, t) ==
  \/ row.state = "pending"
  \/ row.state = "failed" /\ row.next_attempt_at < t

\* the WHERE clause of claimJob's SELECT
IsEligible(row, t) ==
  \/ row.state = "pending"
  \/ row.state = "failed" /\ row.next_attempt_at <= t

Eligible(rows, t) == {i \in DOMAIN rows : IsEligible(rows[i], t)}

\* faulty variant: ORDER BY updated_at DESC
SelectNewest(rows, t) ==
  {i \in Eligible(rows, t) :
     \A k \in Eligible(rows, t) : rows[i].updated_at >= rows[k].updated_at}

\* ORDER BY updated_at ASC LIMIT 1: the rows the SELECT may return (SQLite
\* leaves the order among equal keys open)
SelectCandidates(rows, t) ==
  {i \in Eligible(rows, t) :
     \A k \in Eligible(rows, t) : rows[i].updated_at <= rows[k].updated_at}

\* ------------------------------------------------------------------- Init
\* CREATE TABLE IF NOT EXISTS jobs: no rows
EmptyStore == [i \in {} |-> NullJob]

\* no call of calculateBackoff on its own
NoCalc == [attempts |-> 0, t |-> 0, delay |-> 0, next_delay |-> 0,
           next_attempt_at |-> 0, done |-> FALSE]

Init ==
  /\ jobs = EmptyStore
  /\ now = 0
  /\ pc = [w \in Workers |-> "off"]
  /\ isRunning = [w \in Workers |-> TRUE]
  /\ idleCount = [w \in Workers |-> 0]
  /\ job = [w \in Workers |-> NullJob]
  /\ claimNow = [w \in Workers |-> 0]
  /\ stale = [w \in Workers |-> FALSE]
  /\ wakeAt = [w \in Workers |-> 0]
  /\ exitCode = [w \in Workers |-> -1]
  /\ cli = "ok"
  /\ runs = [i \in Ids |-> 0]
  /\ calc = NoCalc

\* ----------------------------------------------------- the store's commits
\* A committed write ends the snapshot of every claimJob transaction that has
\* done its SELECT and not yet its UPDATE (journal_mode = WAL, BEGIN deferred).
StaleAfterCommit(writer) ==
  [v \in Workers |-> IF v # writer /\ pc[v] = "claiming" THEN TRUE ELSE stale[v]]

\* ------------------------------------------------------ cli.js: enqueue
\* JavaScript truthiness of a document value
Truthy(v) ==
  \/ v.type = "string" /\ v.text # ""
  \/ v.type = "number" /\ v.num # 0

\* faulty variant: if (!data.command) alone
ValidDocumentTruthy(doc) == Truthy(doc.command)

\* "Basic validation": !data.command || typeof data.command !== "string"
ValidDocument(doc) == Truthy(doc.command) /\ doc.command.type = "string"

\* data.max_retries || 3
StoredMaxRetries(doc) ==
  IF Truthy(doc.max_retries) THEN doc.max_retries.num ELSE DEFAULT_MAX_RETRIES

\* data.id || uuidv4(): the ids the new job may get
NewJobIds(doc) ==
  IF Truthy(doc.id) THEN {doc.id.text} ELSE GenIds \ Stored

\* the job object the enqueue action builds
NewJob(doc, id, t) ==
  [id |-> id, command |-> doc.command.text, state |-> "pending", attempts |-> 0,
   max_retries |-> StoredMaxRetries(doc), created_at |-> t, updated_at |-> t,
   next_attempt_at |-> t]

\* INSERT INTO jobs: one more row
InsertRow(rows, row) ==
  [i \in DOMAIN rows \cup {row.id} |-> IF i = row.id THEN row ELSE rows[i]]

\* faulty variant: the jobs table without its primary key
NoPrimaryKey(rows, id) == FALSE

\* id TEXT PRIMARY KEY: a row with this id is already in the table
PrimaryKeyConflict(rows, id) == id \in DOMAIN rows

\* queuectl enqueue <file>, the file holding `doc`
Enqueue(doc) ==
  /\ IF ~ValidDocument(doc)
       THEN \* validation error: caught, process.exit(1)
            /\ cli' = "enqueue_error"
            /\ UNCHANGED <<jobs, stale, runs>>
       ELSE \E id \in NewJobIds(doc) :
              IF PrimaryKeyConflict(jobs, id)
                THEN \* PRIMARY KEY violation: insertStmt.run throws
                     /\ cli' = "enqueue_error"
                     /\ UNCHANGED <<jobs, stale, runs>>
                ELSE /\ jobs' = InsertRow(jobs, NewJob(doc, id, now))
                     /\ stale' = StaleAfterCommit("cli")
                     /\ runs' = [runs EXCEPT ![id] = 0]
                     /\ cli' = "ok"
  /\ UNCHANGED <<now, pc, isRunning, idleCount, job, claimNow, wakeAt, exitCode,
                 calc>>

\* --------------------------------------------- JobManager.retryDeadJob
\* faulty variant: WHERE id = ? alone
RetryMatchesAnyState(rows, id) == id \in DOMAIN rows

\* faulty variant: WHERE id = ? AND state IN ('dead', 'failed')
RetryMatchesFailed(rows, id) ==
  id \in DOMAIN rows /\ rows[id].state \in {"dead", "failed"}

\* WHERE id = ? AND state = 'dead'
RetryDeadMatches(rows, id) == id \in DOMAIN rows /\ rows[id].state = "dead"

\* faulty variant: the reset also sets created_at = ?
ResetRowRenewed(row, t) ==
  [row EXCEPT !.state = "pending", !.attempts = 0, !.created_at = t,
              !.updated_at = t, !.next_attempt_at = t]

\* SET state = 'pending', attempts = 0, updated_at = ?, next_attempt_at = ?
ResetRow(row, t) ==
  [row EXCEPT !.state = "pending", !.attempts = 0, !.updated_at = t,
              !.next_attempt_at = t]

\* queuectl dlq retry <jobId>
RetryDeadJob(id) ==
  /\ IF RetryDeadMatches(jobs, id)
       THEN /\ jobs' = [jobs EXCEPT ![id] = ResetRow(jobs[id], now)]
            /\ stale' = StaleAfterCommit("cli")
            /\ runs' = [runs EXCEPT ![id] = 0]
            /\ cli' = "ok"
       ELSE \* info.changes === 0: throws, caught by the CLI, process.exit(1)
            /\ cli' = "dlq_retry_error"
            /\ UNCHANGED <<jobs, stale, runs>>
  /\ UNCHANGED <<now, pc, isRunning, idleCount, job, claimNow, wakeAt, exitCode,
                 calc>>

\* ------------------------------------------------ cli.js: worker start/stop
\* startWorkers(count): refuses when a registered worker is alive, else forks
\* Worker.js count times; each module runs up to workerLoop's loop test.
\* Worker processes are forked once: a slot that has exited stays exited.
StartWorkers(count) ==
  /\ \A w \in Workers : pc[w] = "off"
  /\ pc' = [w \in Workers |-> IF WorkerIndex(w) <= count THEN "poll" ELSE "off"]
  /\ UNCHANGED <<jobs, now, isRunning, idleCount, job, claimNow, stale, wakeAt,
                 exitCode, cli, runs, calc>>

\* startWorkers(count) once every registered worker process has ended: readPIDs
\* drops the dead pids, and count fresh Worker.js processes are forked.
RestartWorkers(count) ==
  /\ \A w \in Workers : pc[w] \in {"off", "exited", "crashed"}
  /\ \E w \in Workers : pc[w] # "off"
  /\ pc' = [w \in Workers |-> IF WorkerIndex(w) <= count THEN "poll" ELSE "off"]
  /\ isRunning' = [w \in Workers |-> TRUE]
  /\ idleCount' = [w \in Workers |-> 0]
  /\ job' = [w \in Workers |-> NullJob]
  /\ claimNow' = [w \in Workers |-> 0]
  /\ stale' = [w \in Workers |-> FALSE]
  /\ wakeAt' = [w \in Workers |-> 0]
  /\ exitCode' = [w \in Workers |-> -1]
  /\ UNCHANGED <<jobs, now, cli, runs, calc>>

\* faulty variant: the handler ends the process itself: process.exit(0)
SignalExitsAtOnce(w) ==
  /\ pc[w] \in {"exec", "sleep"}
  /\ isRunning[w]
  /\ isRunning' = [isRunning EXCEPT ![w] = FALSE]
  /\ pc' = [pc EXCEPT ![w] = "exited"]
  /\ exitCode' = [exitCode EXCEPT ![w] = 0]
  /\ job' = [job EXCEPT ![w] = NullJob]
  /\ UNCHANGED <<jobs, now, idleCount, claimNow, stale, wakeAt, cli, runs, calc>>

\* The SIGINT/SIGTERM handler of Worker.js runs.  Node runs it from the event
\* loop, that is only while workerLoop is suspended in an await: on the
\* command (pc = "exec") or on the idle timer (pc = "sleep").
Signal(w) ==
  /\ pc[w] \in {"exec", "sleep"}
  /\ isRunning[w]
  /\ isRunning' = [isRunning EXCEPT ![w] = FALSE]
  /\ UNCHANGED <<jobs, now, pc, idleCount, job, claimNow, stale, wakeAt,
                 exitCode, cli, runs, calc>>

\* ------------------------------------------------- JobManager.claimJob
\* faulty variant: the claim also sets attempts = attempts + 1
ClaimRowCounted(row, t) ==
  [row EXCEPT !.state = "processing", !.attempts = row.attempts + 1,
              !.updated_at = t]

\* SET state = 'processing', updated_at = ?
ClaimRow(row, t) == [row EXCEPT !.state = "processing", !.updated_at = t]

\* faulty variant: while (true)
LoopForever(w) == TRUE

\* while (isRunning)
LoopCondition(w) == isRunning[w]

\* faulty variant: if (idleCount > MAX_IDLE_COUNT) break
IdleBranchLate(w) ==
  /\ idleCount' = [idleCount EXCEPT ![w] = idleCount[w] + 1]
  /\ IF idleCount[w] + 1 > MAX_IDLE_COUNT
       THEN /\ pc' = [pc EXCEPT ![w] = "exited"]
            /\ exitCode' = [exitCode EXCEPT ![w] = 0]
            /\ UNCHANGED wakeAt
       ELSE /\ pc' = [pc EXCEPT ![w] = "sleep"]
            /\ wakeAt' = [wakeAt EXCEPT ![w] = now + IDLE_SLEEP_SECONDS]
            /\ UNCHANGED exitCode

\* the else branch of workerLoop: idleCount++, break at MAX_IDLE_COUNT, or sleep
IdleBranch(w) ==
  /\ idleCount' = [idleCount EXCEPT ![w] = idleCount[w] + 1]
  /\ IF idleCount[w] + 1 >= MAX_IDLE_COUNT
       THEN \* break; db.close(); process.exit(0)
            /\ pc' = [pc EXCEPT ![w] = "exited"]
            /\ exitCode' = [exitCode EXCEPT ![w] = 0]
            /\ UNCHANGED wakeAt
       ELSE /\ pc' = [pc EXCEPT ![w] = "sleep"]
            /\ wakeAt' = [wakeAt EXCEPT ![w] = now + IDLE_SLEEP_SECONDS]
            /\ UNCHANGED exitCode

\* claimJob up to the end of its SELECT: the transaction reads its snapshot.
\* No row: the transaction returns null and the loop takes its idle branch.
ClaimSelect(w) ==
  /\ pc[w] = "poll"
  /\ LoopCondition(w)
  /\ IF SelectCandidates(jobs, now) = {}
       THEN /\ IdleBranch(w)
            /\ UNCHANGED <<job, claimNow, stale>>
       ELSE \E i \in SelectCandidates(jobs, now) :
              /\ job' = [job EXCEPT ![w] = jobs[i]]
              /\ claimNow' = [claimNow EXCEPT ![w] = now]
              /\ stale' = [stale EXCEPT ![w] = FALSE]
              /\ pc' = [pc EXCEPT ![w] = "claiming"]
              /\ UNCHANGED <<idleCount, wakeAt, exitCode>>
  /\ UNCHANGED <<jobs, now, isRunning, cli, runs, calc>>

\* faulty variant: the SELECT and the UPDATE run outside a transaction: never refused
WriteNeverRefused(w) == FALSE

\* db.transaction: the UPDATE of a transaction whose snapshot is stale is refused
WriteRefused(w) == stale[w]

\* claimJob's UPDATE and commit.  When another connection committed after the
\* SELECT, the write is refused (SQLITE_BUSY), the transaction rolls back and
\* claimJob throws; workerLoop does not catch it, the process dies with
\* status 1.  Otherwise the row is claimed and the command is spawned.
ClaimUpdate(w) ==
  /\ pc[w] = "claiming"
  /\ IF WriteRefused(w)
       THEN /\ pc' = [pc EXCEPT ![w] = "crashed"]
            /\ exitCode' = [exitCode EXCEPT ![w] = 1]
            /\ job' = [job EXCEPT ![w] = NullJob]
            /\ stale' = [stale EXCEPT ![w] = FALSE]
            /\ UNCHANGED <<jobs, idleCount>>
       ELSE /\ jobs' = [jobs EXCEPT ![job[w].id] = ClaimRow(jobs[job[w].id], claimNow[w])]
            /\ job' = [job EXCEPT ![w] = ClaimRow(job[w], claimNow[w])]
            /\ stale' = StaleAfterCommit(w)
            /\ idleCount' = [idleCount EXCEPT ![w] = 0]
            /\ pc' = [pc EXCEPT ![w] = "exec"]
            /\ UNCHANGED exitCode
  /\ claimNow' = [claimNow EXCEPT ![w] = 0]
  /\ UNCHANGED <<now, isRunning, wakeAt, cli, runs, calc>>

\* ------------------------------------ executeCommand, updateJobState
\* the code executeCommand resolves with (null written -1)
ResultCode(o) ==
  CASE o = "close0" -> 0
    [] o = "close1" -> 1
    [] o = "closeNull" -> -1
    [] o = "error" -> 1

\* faulty variant: success = !result.code, true of a null code too
SuccessIfFalsy(o) == ResultCode(o) \in {0, -1}

\* success = result.code === 0
Success(o) == ResultCode(o) = 0

\* faulty variant: one failure too many before the dead-letter queue
MovesToDeadLate(newAttempts, max_retries) == newAttempts > max_retries + 1

\* faulty variant: no retry left at newAttempts = max_retries
MovesToDeadEarly(newAttempts, max_retries) == newAttempts >= max_retries

\* updateJobState's decision: move to the dead-letter queue
MovesToDead(newAttempts, max_retries) == newAttempts > max_retries

\* faulty variant: a success counted as an attempt
SuccessRowCounted(row, t) ==
  [row EXCEPT !.state = "completed", !.attempts = row.attempts + 1, !.updated_at = t]

\* Case 1: SET state = 'completed', updated_at = ?
SuccessRow(row, t) == [row EXCEPT !.state = "completed", !.updated_at = t]

\* faulty variant: a failure that leaves attempts as the worker's copy has it
FailureRowUncounted(row, j, t) ==
  IF MovesToDead(j.attempts + 1, j.max_retries)
    THEN [row EXCEPT !.state = "dead", !.attempts = j.attempts,
                     !.updated_at = t]
    ELSE [row EXCEPT !.state = "failed", !.attempts = j.attempts,
                     !.next_attempt_at = CalculateBackoff(j.attempts + 1, t),
                     !.updated_at = t]

\* Case 2, from the worker's copy j of the job: dead-letter or retry
FailureRow(row, j, t) ==
  IF MovesToDead(j.attempts + 1, j.max_retries)
    THEN [row EXCEPT !.state = "dead", !.attempts = j.attempts + 1,
                     !.updated_at = t]
    ELSE [row EXCEPT !.state = "failed", !.attempts = j.attempts + 1,
                     !.next_attempt_at = CalculateBackoff(j.attempts + 1, t),
                     !.updated_at = t]

\* the row updateJobState(j, success) writes
UpdatedRow(row, j, success, t) ==
  IF success THEN SuccessRow(row, t) ELSE FailureRow(row, j, t)

\* faulty variant: a worker that was signalled during the command skips the
\* report
FinishJobUnreported(w, o) ==
  /\ pc[w] = "exec"
  /\ IF isRunning[w]
       THEN /\ jobs' = [i \in Stored |->
                          IF i = job[w].id
                            THEN UpdatedRow(jobs[i], job[w], Success(o), now)
                            ELSE jobs[i]]
            /\ stale' = StaleAfterCommit(w)
       ELSE UNCHANGED <<jobs, stale>>
  /\ job' = [job EXCEPT ![w] = NullJob]
  /\ pc' = [pc EXCEPT ![w] = "poll"]
  /\ runs' = [runs EXCEPT ![job[w].id] = runs[job[w].id] + 1]
  /\ UNCHANGED <<now, isRunning, idleCount, claimNow, wakeAt, exitCode, cli, calc>>

\* The command ends with outcome o; workerLoop resumes, computes success and
\* calls updateJobState (UPDATE ... WHERE id = ?), then returns to the loop test.
FinishJob(w, o) ==
  /\ pc[w] = "exec"
  /\ jobs' = [i \in Stored |->
                IF i = job[w].id THEN UpdatedRow(jobs[i], job[w], Success(o), now)
                                 ELSE jobs[i]]
  /\ stale' = StaleAfterCommit(w)
  /\ job' = [job EXCEPT ![w] = NullJob]
  /\ pc' = [pc EXCEPT ![w] = "poll"]
  /\ runs' = [runs EXCEPT ![job[w].id] = runs[job[w].id] + 1]
  /\ UNCHANGED <<now, isRunning, idleCount, claimNow, wakeAt, exitCode, cli, calc>>

\* the idle timer fires: back to the loop test
Wake(w) ==
  /\ pc[w] = "sleep"
  /\ now >= wakeAt[w]
  /\ pc' = [pc EXCEPT ![w] = "poll"]
  /\ wakeAt' = [wakeAt EXCEPT ![w] = 0]
  /\ UNCHANGED <<jobs, now, isRunning, idleCount, job, claimNow, stale,
                 exitCode, cli, runs, calc>>

\* the loop test fails: db.close(); process.exit(0)
Shutdown(w) ==
  /\ pc[w] = "poll"
  /\ ~LoopCondition(w)
  /\ pc' = [pc EXCEPT ![w] = "exited"]
  /\ exitCode' = [exitCode EXCEPT ![w] = 0]
  /\ UNCHANGED <<jobs, now, isRunning, idleCount, job, claimNow, stale, wakeAt, cli,
                 runs, calc>>

\* workerLoop runs synchronously from one await to the next: the loop test, the
\* claim transaction and the outcome report take no measurable part of a second
Busy(w) == pc[w] \in {"poll", "claiming"}

\* the idle timer of a sleeping worker has run out
TimerDue(w) == pc[w] = "sleep" /\ now >= wakeAt[w]

\* The clock advances by one second.  It does so while every worker process is
\* suspended (in a command, in a sleep whose timer has not run out) or gone.
TickTo(limit) ==
  /\ now < limit
  /\ \A w \in Workers : ~Busy(w) /\ ~TimerDue(w)
  /\ now' = now + 1
  /\ UNCHANGED <<jobs, workerVars, cli, runs, calc>>

Tick == TickTo(MaxTime)

\* ------------------------------------------------------------ the system
\* one step of a worker process
WorkerStep(w) ==
  \/ ClaimSelect(w)
  \/ ClaimUpdate(w)
  \/ \E o \in Outcomes : FinishJob(w, o)
  \/ Wake(w)
  \/ Shutdown(w)

\* one step of a worker process that is never signalled: its loop test holds
LoopStep(w) ==
  \/ ClaimSelect(w)
  \/ ClaimUpdate(w)
  \/ \E o \in Outcomes : FinishJob(w, o)
  \/ Wake(w)

Next ==
  \/ Tick
  \/ \E doc \in Documents : Enqueue(doc)
  \/ \E id \in Ids : RetryDeadJob(id)
  \/ \E count \in 1..Cardinality(Workers) : StartWorkers(count)
  \/ \E w \in Workers : Signal(w)
  \/ \E w \in Workers : WorkerStep(w)

\* the whole system: any document, any number of workers, signals
Spec == Init /\ [][Next]_vars

\* The queue under one worker that is never signalled: every document, both
\* ids, retries after backoff, the dead-letter queue and its reset.
NextQueue ==
  \/ Tick
  \/ \E doc \in Documents : Enqueue(doc)
  \/ \E id \in Ids : RetryDeadJob(id)
  \/ StartWorkers(1)
  \/ \E w \in Workers : LoopStep(w)

SpecQueue == Init /\ [][NextQueue]_vars

\* the documents that pass validation and ask for one retry
PlainDocuments ==
  {doc \in Documents : ValidDocument(doc) /\ doc.max_retries = Num(1)}

\* Contending workers: up to two workers on up to two jobs, never signalled.
NextContend ==
  \/ Tick
  \/ \E doc \in PlainDocuments : Enqueue(doc)
  \/ \E id \in Ids : RetryDeadJob(id)
  \/ \E count \in 1..Cardinality(Workers) : StartWorkers(count)
  \/ \E w \in Workers : LoopStep(w)

SpecContend == Init /\ [][NextContend]_vars

\* Shutdown: up to two workers, termination signals, jobs submitted under a
\* caller-supplied id.
NextSignal ==
  \/ Tick
  \/ \E doc \in {d \in PlainDocuments : d.id # Undefined} : Enqueue(doc)
  \/ \E id \in UserIds : RetryDeadJob(id)
  \/ \E count \in 1..Cardinality(Workers) : StartWorkers(count)
  \/ \E w \in Workers : Signal(w)
  \/ \E w \in Workers : WorkerStep(w)

SpecSignal == Init /\ [][NextSignal]_vars

\* Workers that come and go: up to two workers on up to two jobs, with
\* termination signals and no dead-letter reset.
NextLive ==
  \/ Tick
  \/ \E doc \in PlainDocuments : Enqueue(doc)
  \/ \E count \in 1..Cardinality(Workers) : StartWorkers(count)
  \/ \E w \in Workers : Signal(w)
  \/ \E w \in Workers : WorkerStep(w)

SpecLive == Init /\ [][NextLive]_vars

\* the documents of one job under a caller-supplied id, with one or two retries
LongDocuments ==
  {[id |-> Str("a"), command |-> Str(c), max_retries |-> Num(m)] :
     c \in Commands, m \in 1..2}

\* One worker at a time over a long time: the backoff of a second retry runs
\* out, an idle worker counts its empty polls up to its retirement, and a new
\* worker is started once the last one has ended.
NextLong ==
  \/ TickTo(LongTime)
  \/ \E doc \in LongDocuments : Enqueue(doc)
  \/ \E id \in UserIds : RetryDeadJob(id)
  \/ StartWorkers(1)
  \/ RestartWorkers(1)
  \/ \E w \in Workers : LoopStep(w)

SpecLong == Init /\ [][NextLong]_vars

\* queuectl enqueue while no worker has been started yet
EnqueueBeforeStart(doc) ==
  /\ \A w \in Workers : pc[w] = "off"
  /\ Enqueue(doc)

\* queuectl worker start --count 1 on a queue that holds a job
StartOnQueue ==
  /\ Stored # {}
  /\ StartWorkers(1)

\* One worker started on a non-empty queue and then left alone: no further
\* command, no signal, no second start.
NextProgress ==
  \/ TickTo(LongTime)
  \/ \E doc \in LongDocuments : EnqueueBeforeStart(doc)
  \/ StartOnQueue
  \/ \E w \in Workers : LoopStep(w)

SpecProgress == Init /\ [][NextProgress]_vars

\* the documents that pass validation and ask for no retry
ZeroDocuments ==
  {doc \in Documents : ValidDocument(doc) /\ doc.max_retries = Num(0)}

\* Jobs submitted with max_retries = 0, under one worker that is never signalled.
NextZero ==
  \/ Tick
  \/ \E doc \in ZeroDocuments : Enqueue(doc)
  \/ StartWorkers(1)
  \/ \E w \in Workers : LoopStep(w)

SpecZero == Init /\ [][NextZero]_vars

\* calculateBackoff on its own: one call for an attempt count at a time of the
\* clock, and, for comparison, the delay of the next attempt count.
InitBackoff ==
  /\ jobs = EmptyStore
  /\ now = 0
  /\ pc = [w \in Workers |-> "off"]
  /\ isRunning = [w \in Workers |-> TRUE]
  /\ idleCount = [w \in Workers |-> 0]
  /\ job = [w \in Workers |-> NullJob]
  /\ claimNow = [w \in Workers |-> 0]
  /\ stale = [w \in Workers |-> FALSE]
  /\ wakeAt = [w \in Workers |-> 0]
  /\ exitCode = [w \in Workers |-> -1]
  /\ cli = "ok"
  /\ runs = [i \in Ids |-> 0]
  /\ calc \in {[NoCalc EXCEPT !.attempts = n, !.t = t] :
                 n \in 1..MaxAttempts, t \in 0..MaxCallTime}

CallCalculateBackoff ==
  /\ ~calc.done
  /\ calc' = [calc EXCEPT
                !.delay = CalculateBackoffDelay(calc.attempts),
                !.next_delay = CalculateBackoffDelay(calc.attempts + 1),
                !.next_attempt_at = CalculateBackoff(calc.attempts, calc.t),
                !.done = TRUE]
  /\ UNCHANGED <<jobs, now, workerVars, cli, runs>>

NextBackoff == CallCalculateBackoff

SpecBackoff == InitBackoff /\ [][NextBackoff]_vars

\* The claim race: every worker is at its loop test, the store holds exactly
\* one eligible job (just enqueued, or failed once with its backoff over) and
\* possibly a completed one, and each worker makes one claimJob call.
RaceJobs(doc, id) ==
  LET fresh == NewJob(doc, id, 0)
      claimed == ClaimRow(fresh, 0)
  IN  {fresh, FailureRow(claimed, claimed, 0)}

RaceOthers(doc, id) ==
  LET other == CHOOSE k \in Ids : k # id
      claimed == ClaimRow(NewJob(doc, other, 0), 0)
  IN  {SuccessRow(claimed, 0)}

RaceStores ==
  UNION { UNION { {InsertRow(EmptyStore, row)}
                    \cup {InsertRow(InsertRow(EmptyStore, row), o) :
                            o \in RaceOthers(p[1], p[2])}
                  : row \in RaceJobs(p[1], p[2]) }
          : p \in {d \in Documents : ValidDocument(d) /\ d.id = Undefined} \X Ids }

InitRace ==
  /\ jobs \in RaceStores
  /\ now \in {BACKOFF_BASE_SECONDS, BACKOFF_BASE_SECONDS + 1}
  /\ pc = [w \in Workers |-> "poll"]
  /\ isRunning = [w \in Workers |-> TRUE]
  /\ idleCount = [w \in Workers |-> 0]
  /\ job = [w \in Workers |-> NullJob]
  /\ claimNow = [w \in Workers |-> 0]
  /\ stale = [w \in Workers |-> FALSE]
  /\ wakeAt = [w \in Workers |-> 0]
  /\ exitCode = [w \in Workers |-> -1]
  /\ cli = "ok"
  /\ runs = [i \in Ids |-> 0]
  /\ calc = NoCalc

\* Two reporters for one job: the store holds one processing job, possibly
\* next to a completed one, and each worker holds the same claimed copy of it
\* and is about to call updateJobState with the outcome of its command.
ReportStores ==
  {[i \in DOMAIN st |-> IF IsEligible(st[i], BACKOFF_BASE_SECONDS)
                          THEN ClaimRow(st[i], BACKOFF_BASE_SECONDS)
                          ELSE st[i]] : st \in RaceStores}

InitReport ==
  /\ jobs \in ReportStores
  /\ now \in {BACKOFF_BASE_SECONDS, BACKOFF_BASE_SECONDS + 1}
  /\ pc = [w \in Workers |-> "exec"]
  /\ isRunning = [w \in Workers |-> TRUE]
  /\ idleCount = [w \in Workers |-> 0]
  /\ \E i \in Stored :
       /\ jobs[i].state = "processing"
       /\ job = [w \in Workers |-> jobs[i]]
  /\ claimNow = [w \in Workers |-> 0]
  /\ stale = [w \in Workers |-> FALSE]
  /\ wakeAt = [w \in Workers |-> 0]
  /\ exitCode = [w \in Workers |-> -1]
  /\ cli = "ok"
  /\ runs = [i \in Ids |-> 0]
  /\ calc = NoCalc

NextReport == \E w \in Workers : \E o \in Outcomes : FinishJob(w, o)

SpecReport == InitReport /\ [][NextReport]_vars

NextRace ==
  \/ \E w \in Workers : ClaimSelect(w)
  \/ \E w \in Workers : ClaimUpdate(w)

SpecRace == InitRace /\ [][NextRace]_vars

\* =================================================================== claims

\* the workers that hold job i: they claimed it and are running its command
Holders(i) == {w \in Workers : pc[w] = "exec" /\ job[w].id = i}

\* every worker's claimJob call of the race has ended
RaceOver == \A w \in Workers : pc[w] \notin {"poll", "claiming"}

\* C1: when the concurrent claimJob calls against a store with exactly one
\* eligible job have all ended, exactly one of them returned the job (its
\* worker runs the command) and every other one returned null (its worker
\* took the idle branch); none ended any other way.
C1_ClaimExclusivity ==
  RaceOver =>
    /\ Cardinality({w \in Workers : pc[w] = "exec"}) = 1
    /\ \A w \in Workers : pc[w] \in {"exec", "sleep"}

\* C2: a job in state processing is held by exactly one worker, and no job
\* is held by two workers at the same time.
C2_OneHolder ==
  \A i \in Stored :
    /\ Cardinality(Holders(i)) <= 1
    /\ jobs[i].state = "processing" => Cardinality(Holders(i)) = 1

\* C2 witness: one worker holds a job that another worker selected as well
C2_Witness ==
  \E w, v \in Workers :
    /\ w # v
    /\ pc[w] = "exec" /\ pc[v] = "claiming"
    /\ job[v].id = job[w].id
    /\ jobs[job[w].id].state = "processing"

\* the eligibility of a row at time t, as the specification states it
SpecEligible(row, t) ==
  row.state = "pending" \/ (row.state = "failed" /\ row.next_attempt_at <= t)

\* worker w's claimJob call ends its SELECT with a row
Selects(w) == pc[w] = "poll" /\ pc'[w] = "claiming"

\* worker w's claimJob call returns the job
ReturnsJob(w) == pc[w] = "claiming" /\ pc'[w] = "exec"

\* worker w's claimJob call returns null
ReturnsNull(w) == pc[w] = "poll" /\ isRunning[w] /\ pc'[w] \in {"sleep", "exited"}

\* C3: attempts <= max_retries + 1 for every job in every reachable state, and
\* a failure report that brings attempts to max_retries + 1 puts the job in
\* dead, never in failed.
C3_AttemptBound ==
  /\ [](\A i \in Stored : jobs[i].attempts <= jobs[i].max_retries + 1)
  /\ [][\A w \in Workers : \A o \in Outcomes :
          (/\ FinishJob(w, o)
           /\ ~Success(o)
           /\ jobs'[job[w].id].attempts = jobs[job[w].id].max_retries + 1)
          => jobs'[job[w].id].state = "dead"]_vars

\* C3 witness: a job arrived in dead with attempts = max_retries + 1
C3_Witness ==
  \E i \in Stored :
    jobs[i].state = "dead" /\ jobs[i].attempts = jobs[i].max_retries + 1

\* C4: the job claimJob selects and returns is pending, or failed with
\* next_attempt_at <= now (never processing, completed, dead, or failed in
\* backoff); claimJob returns null only when no job is pending and no failed
\* job has next_attempt_at <= now.
C4_Eligibility ==
  [][\A w \in Workers :
       /\ Selects(w) =>
            /\ job'[w].id \in Stored
            /\ job'[w] = jobs[job'[w].id]
            /\ SpecEligible(job'[w], now)
       /\ ReturnsJob(w) => SpecEligible(jobs[job[w].id], now)
       /\ ReturnsNull(w) => \A i \in Stored : ~SpecEligible(jobs[i], now)]_vars

\* C4 witness: a failed job is claimed at the second its next_attempt_at comes
C4_Witness ==
  \E w \in Workers :
    /\ pc[w] = "exec"
    /\ job[w].attempts = 1
    /\ job[w].updated_at = job[w].next_attempt_at

\* C5: the job claimJob selects and returns has the smallest updated_at among
\* the eligible jobs; jobs that are not eligible do not count.
C5_SelectionOrder ==
  [][\A w \in Workers :
       /\ Selects(w) =>
            \A k \in Stored :
              SpecEligible(jobs[k], now) => job'[w].updated_at <= jobs[k].updated_at
       /\ ReturnsJob(w) =>
            \A k \in Stored :
              SpecEligible(jobs[k], now) =>
                jobs[job[w].id].updated_at <= jobs[k].updated_at]_vars

\* C5 witness: two pending jobs, the claim took the one with the older updated_at
C5_Witness ==
  \E w \in Workers : \E k \in Stored :
    /\ pc[w] = "claiming"
    /\ job[w].state = "pending"
    /\ k # job[w].id
    /\ jobs[k].state = "pending"
    /\ jobs[k].updated_at > job[w].updated_at

\* C6: a failure report on a processing job with attempts = a, max_retries = m
\* sets attempts to a + 1 and updated_at to now; the state becomes dead when
\* a + 1 > m, else failed with next_attempt_at = now + 5 * 2^a.
C6_FailureReport ==
  [][\A w \in Workers : \A o \in Outcomes :
       (FinishJob(w, o) /\ ~Success(o) /\ jobs[job[w].id].state = "processing") =>
         LET a == jobs[job[w].id].attempts
             m == jobs[job[w].id].max_retries
             r == jobs'[job[w].id]
         IN  /\ r.attempts = a + 1
             /\ r.updated_at = now
             /\ IF a + 1 > m
                  THEN r.state = "dead"
                  ELSE r.state = "failed" /\ r.next_attempt_at = now + 5 * 2^a]_vars

\* C6 witness: a second failure left the job failed with a backoff of 10 s
C6_Witness ==
  \E i \in Stored :
    /\ jobs[i].state = "failed"
    /\ jobs[i].attempts = 2
    /\ jobs[i].next_attempt_at = jobs[i].updated_at + 10

\* C7: a success report on a processing job sets state to completed and
\* updated_at to now, and leaves attempts, max_retries, command, id and
\* created_at as they were.
C7_SuccessReport ==
  [][\A w \in Workers : \A o \in Outcomes :
       (FinishJob(w, o) /\ Success(o) /\ jobs[job[w].id].state = "processing") =>
         LET r == jobs[job[w].id]
             r2 == jobs'[job[w].id]
         IN  /\ r2.state = "completed"
             /\ r2.updated_at = now
             /\ r2.attempts = r.attempts
             /\ r2.max_retries = r.max_retries
             /\ r2.command = r.command
             /\ r2.id = r.id
             /\ r2.created_at = r.created_at]_vars

\* C7 witness: a job completed on its retry, its one failure still counted
C7_Witness ==
  \E i \in Stored :
    /\ jobs[i].state = "completed"
    /\ jobs[i].attempts = 1
    /\ jobs[i].updated_at > jobs[i].created_at

\* C8: retryDeadJob on a dead job makes it pending with attempts = 0 and
\* updated_at = next_attempt_at = now; on a job in any other state, or on an
\* id the store does not hold, it fails with an error and no row changes.
C8_DeadLetterReset ==
  [][\A id \in Ids :
       RetryDeadJob(id) =>
         IF id \in Stored /\ jobs[id].state = "dead"
           THEN /\ jobs'[id].state = "pending"
                /\ jobs'[id].attempts = 0
                /\ jobs'[id].updated_at = now
                /\ jobs'[id].next_attempt_at = now
                /\ cli' = "ok"
           ELSE /\ cli' = "dlq_retry_error"
                /\ jobs' = jobs]_vars

\* C8 witness: a dead job was reset, and a later retry was rejected
C8_Witness ==
  /\ cli = "dlq_retry_error"
  /\ \E i \in Stored :
       /\ jobs[i].state = "pending"
       /\ jobs[i].attempts = 0
       /\ jobs[i].updated_at > jobs[i].created_at
       /\ jobs[i].next_attempt_at = jobs[i].updated_at

\* C9: a termination signal that reaches a worker while it runs a claimed job
\* changes neither the worker's position nor the job; the worker leaves the
\* command only by reporting the outcome (completed, failed or dead); and a
\* signalled worker that has exited has left no job of its own in processing:
\* every processing job is held by another worker.
C9_GracefulShutdown ==
  /\ [](\A w \in Workers :
          (pc[w] = "exited" /\ ~isRunning[w]) =>
            \A i \in Stored :
              jobs[i].state = "processing" => (Holders(i) \ {w}) # {})
  /\ [][\A w \in Workers :
          /\ (isRunning[w] /\ ~isRunning'[w] /\ pc[w] = "exec") =>
               (pc'[w] = "exec" /\ job'[w] = job[w] /\ jobs' = jobs)
          /\ (~isRunning[w] /\ pc[w] = "exec" /\ pc'[w] # "exec") =>
               /\ pc'[w] = "poll"
               /\ jobs'[job[w].id].state \in {"completed", "failed", "dead"}]_vars

\* C9 witness: the signal has reached a worker whose command is still running
C9_Witness ==
  \E w \in Workers :
    /\ pc[w] = "exec"
    /\ ~isRunning[w]
    /\ jobs[job[w].id].state = "processing"

\* C10: once its handler has run, a worker starts no claimJob call and gets no
\* job; its only moves are out of the command (with the report), out of the
\* sleep, and from the loop test to exit with status 0.
C10_NoClaimAfterSignal ==
  [][\A w \in Workers :
       ~isRunning[w] =>
         /\ ~Selects(w)
         /\ ~ReturnsJob(w)
         /\ pc'[w] # pc[w] =>
              \/ pc[w] = "exec" /\ pc'[w] = "poll"
              \/ pc[w] = "sleep" /\ pc'[w] = "poll"
              \/ pc[w] = "poll" /\ pc'[w] = "exited" /\ exitCode'[w] = 0]_vars

\* C10 witness: a signalled worker exited with status 0 past a pending job
C10_Witness ==
  \E w \in Workers : \E i \in Stored :
    /\ pc[w] = "exited"
    /\ ~isRunning[w]
    /\ exitCode[w] = 0
    /\ jobs[i].state = "pending"

\* C11: idleCount counts the consecutive claimJob calls that returned null (one
\* more on each, 0 on every call that returns a job, no other change while
\* the process lives); a
\* worker that was never signalled exits exactly on the call that brings the
\* count to 10, with status 0; a worker leaves a command for the loop test,
\* with no sleep in between.
C11_IdleRetirement ==
  /\ [](\A w \in Workers :
          (pc[w] = "exited" /\ isRunning[w]) =>
            (idleCount[w] = 10 /\ exitCode[w] = 0))
  /\ [][\A w \in Workers :
          /\ ReturnsNull(w) =>
               /\ idleCount'[w] = idleCount[w] + 1
               /\ (pc'[w] = "exited") <=> (idleCount'[w] = 10)
          /\ ReturnsJob(w) => idleCount'[w] = 0
          /\ (pc[w] \notin {"exited", "crashed"} /\ idleCount'[w] # idleCount[w]) =>
               (ReturnsNull(w) \/ ReturnsJob(w))
          /\ (pc[w] = "exec" /\ pc'[w] # "exec") =>
               (pc'[w] = "poll" /\ wakeAt'[w] = 0)]_vars

\* C11 witness: a worker has finished a job and then retired after 10 empty
\* polls, with status 0
C11_Witness ==
  \E w \in Workers : \E i \in Stored :
    /\ pc[w] = "exited"
    /\ isRunning[w]
    /\ idleCount[w] = 10
    /\ exitCode[w] = 0
    /\ jobs[i].state = "completed"

\* C12: a claimJob call whose transaction fails (another connection committed
\* between its SELECT and its UPDATE) returns no job and leaves the store as
\* it is, and the worker goes on as after an empty poll: into its idle sleep,
\* or into retirement when this was its 10th empty poll; it does not die.
C12_ClaimFailureNotFatal ==
  [][\A w \in Workers :
       (pc[w] = "claiming" /\ stale[w] /\ pc'[w] # "claiming") =>
         /\ jobs' = jobs
         /\ pc'[w] # "exec"
         /\ \/ pc'[w] = "sleep"
            \/ pc'[w] = "exited" /\ idleCount'[w] = 10 /\ exitCode'[w] = 0]_vars

\* the document's command field is missing, empty or not a string
BadCommand(doc) ==
  \/ doc.command = Undefined
  \/ doc.command = Str("")
  \/ doc.command.type # "string"

\* C13: queuectl enqueue on a document whose command is missing, empty or not
\* a string exits non-zero and leaves the store exactly as it was.
C13_ValidationRejects ==
  [][\A doc \in Documents :
       (BadCommand(doc) /\ Enqueue(doc)) =>
         (cli' = "enqueue_error" /\ jobs' = jobs)]_vars

\* C13 witness: an enqueue was rejected on an empty store, where no id can
\* be a duplicate: the document failed validation
C13_Witness == cli = "enqueue_error" /\ jobs = EmptyStore

\* the max_retries a submission asks for: the document's value, 3 when absent
GivenMaxRetries(doc) ==
  IF doc.max_retries = Undefined THEN 3 ELSE doc.max_retries.num

\* C14: every enqueue that stores a job stores it pending with attempts = 0
\* and with the max_retries the document gives (0 included), 3 only when the
\* document has no max_retries.
C14_MaxRetriesAsGiven ==
  [][\A doc \in Documents :
       (Enqueue(doc) /\ cli' = "ok" /\ jobs' # jobs) =>
         \E id \in DOMAIN jobs' \ DOMAIN jobs :
           /\ jobs'[id].max_retries = GivenMaxRetries(doc)
           /\ jobs'[id].state = "pending"
           /\ jobs'[id].attempts = 0]_vars

\* C15: queuectl enqueue of a document whose id is already stored ends with an
\* error and leaves every record as it was; and in every state each id has
\* one record: the record kept under an id carries that id.
C15_DuplicateIdRejected ==
  /\ [](\A i \in Stored : jobs[i].id = i)
  /\ [][\A doc \in LongDocuments :
          (doc.id.text \in Stored /\ Enqueue(doc)) =>
            (cli' = "enqueue_error" /\ jobs' = jobs)]_vars

\* C15 witness: an enqueue was rejected while the store holds a job that has
\* run; every document here passes validation, so the id was the reason
C15_Witness ==
  /\ cli = "enqueue_error"
  /\ \E i \in Stored : jobs[i].state = "completed" /\ jobs[i].attempts = 1

\* C16: with every job submitted with max_retries = 0, no job is ever in
\* failed, and the report of a command that did not exit 0 leaves the job
\* dead with attempts = 1.
C16_ZeroRetriesScenario ==
  /\ [](\A i \in Stored : jobs[i].state # "failed")
  /\ [][\A w \in Workers : \A o \in Outcomes \ {"close0"} :
          FinishJob(w, o) =>
            /\ jobs'[job[w].id].state = "dead"
            /\ jobs'[job[w].id].attempts = 1]_vars

\* C17: a completed job has attempts = k <= max_retries, where k is the number
\* of its executions before the last one, all of them failed (a success ends
\* the job); the report of a success after k failed executions leaves the job
\* completed with attempts = k.
C17_FailThenSucceed ==
  /\ [](\A i \in Stored :
          jobs[i].state = "completed" =>
            /\ jobs[i].attempts = runs[i] - 1
            /\ jobs[i].attempts <= jobs[i].max_retries)
  /\ [][\A w \in Workers :
          FinishJob(w, "close0") =>
            /\ jobs'[job[w].id].state = "completed"
            /\ jobs'[job[w].id].attempts = runs[job[w].id]]_vars

\* C17 witness: max_retries = 2, two failed executions, then a success
C17_Witness ==
  \E i \in Stored :
    /\ jobs[i].max_retries = 2
    /\ jobs[i].state = "completed"
    /\ jobs[i].attempts = 2
    /\ runs[i] = 3

\* C18: a job in dead has been executed max_retries + 1 times since its
\* creation or its last dead-letter reset, every time without success, and a
\* job enters dead only by the report of a failed execution.
C18_RunsUntilDead ==
  /\ [](\A i \in Stored :
          jobs[i].state = "dead" =>
            /\ runs[i] = jobs[i].max_retries + 1
            /\ jobs[i].attempts = runs[i])
  /\ [][\A i \in Stored :
          (jobs[i].state # "dead" /\ jobs'[i].state = "dead") =>
            \E w \in Workers : \E o \in Outcomes \ {"close0"} :
              job[w].id = i /\ FinishJob(w, o)]_vars

\* C18 witness: max_retries = 1 and the job is dead after 2 runs
C18_Witness ==
  \E i \in Stored :
    /\ jobs[i].max_retries = 1
    /\ jobs[i].state = "dead"
    /\ runs[i] = 2

\* C19: calculateBackoff for attempt n >= 1 at time t gives the delay
\* 5 * 2^(n-1) seconds (5, 10, 20, 40 for n = 1, 2, 3, 4), a smaller delay
\* than for attempt n + 1, and next_attempt_at = t + delay exactly.
C19_BackoffPolicy ==
  calc.done =>
    /\ calc.delay = 5 * 2^(calc.attempts - 1)
    /\ calc.attempts = 1 => calc.delay = 5
    /\ calc.attempts = 2 => calc.delay = 10
    /\ calc.attempts = 3 => calc.delay = 20
    /\ calc.attempts = 4 => calc.delay = 40
    /\ calc.delay < calc.next_delay
    /\ calc.next_attempt_at = calc.t + calc.delay

\* C19 witness: the call for the fourth attempt at a time past 0
C19_Witness ==
  /\ calc.done
  /\ calc.attempts = 4
  /\ calc.t = 3
  /\ calc.next_attempt_at = 43

\* C20: when a command ends by a launch error, a non-zero exit status or no
\* exit status, the report puts its job in failed or dead with attempts one
\* higher, and the worker is back at its loop test, alive.
C20_FailureOutcomes ==
  [][\A w \in Workers : \A o \in {"close1", "closeNull", "error"} :
       FinishJob(w, o) =>
         /\ jobs'[job[w].id].state \in {"failed", "dead"}
         /\ jobs'[job[w].id].attempts = jobs[job[w].id].attempts + 1
         /\ pc'[w] = "poll"
         /\ isRunning'[w]
         /\ exitCode'[w] = -1]_vars

\* C20 witness: a worker has reported a second failure, which sent the job to
\* dead, and went on: it sleeps between two polls
C20_Witness ==
  \E w \in Workers : \E i \in Stored :
    /\ jobs[i].state = "dead"
    /\ runs[i] = 2
    /\ pc[w] = "sleep"
    /\ exitCode[w] = -1

\* worker w's outcome report for the job it holds
Reports(w) == pc[w] = "exec" /\ pc'[w] = "poll"

\* C21: a job is created pending, and its state changes only from pending or
\* failed to processing by the claim of the worker that gets it, from
\* processing to completed, failed or dead by the report of the worker that
\* holds it, and from dead to pending by a command that moves no worker; a
\* completed job keeps its state.
C21_LegalTransitions ==
  [][/\ \A i \in DOMAIN jobs' \ DOMAIN jobs : jobs'[i].state = "pending"
     /\ DOMAIN jobs \subseteq DOMAIN jobs'
     /\ \A i \in Stored :
          jobs'[i].state # jobs[i].state =>
            \/ /\ jobs[i].state \in {"pending", "failed"}
               /\ jobs'[i].state = "processing"
               /\ \E w \in Workers : ReturnsJob(w) /\ job'[w].id = i
            \/ /\ jobs[i].state = "processing"
               /\ jobs'[i].state \in {"completed", "failed", "dead"}
               /\ \E w \in Workers : Reports(w) /\ job[w].id = i
            \/ /\ jobs[i].state = "dead"
               /\ jobs'[i].state = "pending"
               /\ pc' = pc]_vars

\* C21 witness: a job is pending again after its time in the dead-letter queue
\* (only the reset leaves a pending job updated after its creation), while
\* another job is completed
C21_Witness ==
  \E i, k \in Stored :
    /\ jobs[i].state = "pending"
    /\ jobs[i].updated_at > jobs[i].created_at
    /\ jobs[k].state = "completed"

\* C22: an outcome report for a job whose stored state is not processing, or
\* whose stored attempts are not those of the reporter's copy, leaves the
\* store as it is.
C22_StaleReportIsNoOp ==
  [][\A w \in Workers :
       (/\ Reports(w)
        /\ \/ jobs[job[w].id].state # "processing"
           \/ jobs[job[w].id].attempts # job[w].attempts) =>
         jobs' = jobs]_vars

\* C23: no step removes a stored job or changes its id, command, max_retries
\* or created_at.
C23_ImmutableFields ==
  [][\A i \in Stored :
       /\ i \in DOMAIN jobs'
       /\ jobs'[i].id = jobs[i].id
       /\ jobs'[i].command = jobs[i].command
       /\ jobs'[i].max_retries = jobs[i].max_retries
       /\ jobs'[i].created_at = jobs[i].created_at]_vars

\* C23 witness: a job has been claimed, reported, reset out of the dead-letter
\* queue, and an insert has just failed
C23_Witness ==
  /\ cli = "enqueue_error"
  /\ \E i \in Stored :
       /\ jobs[i].state = "pending"
       /\ jobs[i].max_retries = 1
       /\ jobs[i].created_at = 0
       /\ jobs[i].updated_at = 5

\* C24: a claimJob call that returns null found no eligible job, changes
\* nothing in the store and is no error; a call that returns a job has set
\* that job's state to processing and its updated_at to now, left its other
\* fields and every other job as they were, and returns the record as stored.
C24_ClaimFrame ==
  [][\A w \in Workers :
       /\ ReturnsNull(w) =>
            /\ jobs' = jobs
            /\ \A i \in Stored : ~SpecEligible(jobs[i], now)
            /\ exitCode'[w] # 1
       /\ ReturnsJob(w) =>
            \E i \in Stored :
              /\ job'[w] = jobs'[i]
              /\ jobs'[i].state = "processing"
              /\ jobs'[i].updated_at = now
              /\ jobs'[i] = [jobs[i] EXCEPT !.state = "processing",
                                            !.updated_at = now]
              /\ jobs[i].state \in {"pending", "failed"}
              /\ DOMAIN jobs' = DOMAIN jobs
              /\ \A k \in Stored \ {i} : jobs'[k] = jobs[k]]_vars

\* C24 witness: a worker holds a job it claimed out of failed, equal to the
\* stored record, while another job is stored
C24_Witness ==
  \E w \in Workers : \E i \in Stored : \E k \in Stored \ {i} :
    /\ pc[w] = "exec"
    /\ job[w] = jobs[i]
    /\ jobs[i].attempts = 1
    /\ jobs[i].next_attempt_at = jobs[i].updated_at
    /\ jobs[k].state = "pending"

\* C25: with one worker started on a non-empty queue and then left alone, the
\* worker does not retire while a job is in failed, and once it has retired
\* (after which no job can move) every job is completed or dead.
C25_Progress ==
  /\ [][\A w \in Workers :
          (isRunning[w] /\ pc[w] # "exited" /\ pc'[w] = "exited") =>
            \A i \in Stored : jobs[i].state # "failed"]_vars
  /\ []((\E w \in Workers : pc[w] = "exited") =>
          \A i \in Stored : jobs[i].state \in {"completed", "dead"})

\* the worker processes that are running
Live == {w \in Workers : pc[w] \in {"poll", "claiming", "exec", "sleep"}}

\* the stored jobs in state processing
Processing == {i \in Stored : jobs[i].state = "processing"}

\* C26: every processing job is held by exactly one worker, which is alive
\* and runs its command; a worker holds a job only while it runs a command,
\* and then one job; so there are no more processing jobs than live workers,
\* and none once every worker has ended.
C26_ProcessingHeldByLive ==
  /\ \A i \in Processing :
       \E w \in Live : Holders(i) = {w} /\ job[w] = jobs[i]
  /\ \A w \in Workers :
       Cardinality({i \in Processing : w \in Holders(i)}) <= 1
  /\ Cardinality(Processing) <= Cardinality(Live)
  /\ (Live = {}) => (Processing = {})

\* C26 witness: two jobs have been claimed; one worker was signalled during
\* its command, reported and exited, the other still runs its job
C26_Witness ==
  \E w, v \in Workers : \E i \in Stored :
    /\ pc[w] = "exited"
    /\ ~isRunning[w]
    /\ pc[v] = "exec"
    /\ Processing = {job[v].id}
    /\ i # job[v].id
    /\ jobs[i].state \in {"completed", "failed"}
====
